---- MODULE Spec2Model ----
(***************************************************************************)
(* Model of src/server.js, the Pixel Studio calendar API: the month view,  *)
(* the day view, the booking transaction and the closed-day register,      *)
(* together with the three collaborators the handlers talk to (the         *)
(* external calendar, the record store and the mail transporter).          *)
(*                                                                         *)
(* Instants are minutes since 1970-01-01T00:00Z.  Strings that the code    *)
(* parses are sequences of one-character strings, so that split, replace,  *)
(* parseInt and the Date parser are computed the way the engine computes   *)
(* them.  The server's time zone is a fixed offset east of UTC (no         *)
(* daylight saving).                                                       *)
(***************************************************************************)
EXTENDS Integers, Sequences, FiniteSets, TLC

\* ------------------------------------------------------------------------
\* Values of the JavaScript engine
\* ------------------------------------------------------------------------

\* The time value of an Invalid Date and the number NaN; no instant or
\* parsed integer of the model comes near it.
NaN == -999999999

\* The value of a request field that is absent from the JSON body.
Undefined == << "undefined" >>

Digits == {"0", "1", "2", "3", "4", "5", "6", "7", "8", "9"}

DigitVal(c) ==
    CASE c = "0" -> 0 [] c = "1" -> 1 [] c = "2" -> 2 [] c = "3" -> 3
      [] c = "4" -> 4 [] c = "5" -> 5 [] c = "6" -> 6 [] c = "7" -> 7
      [] c = "8" -> 8 [] c = "9" -> 9

\* !x for a field of the JSON body: undefined and the empty string are falsy.
Falsy(s) == s = Undefined \/ s = << >>

\* Length of the longest prefix of s made of digits.
RECURSIVE DigitPrefixLen(_)
DigitPrefixLen(s) ==
    IF s = << >> \/ Head(s) \notin Digits THEN 0
    ELSE 1 + DigitPrefixLen(Tail(s))

\* Value of a sequence of digits read in base 10.
RECURSIVE DigitsValue(_)
DigitsValue(s) ==
    IF s = << >> THEN 0
    ELSE 10 * DigitsValue(SubSeq(s, 1, Len(s) - 1)) + DigitVal(s[Len(s)])

RECURSIVE TrimLeft(_)
TrimLeft(s) ==
    IF s # << >> /\ Head(s) = " " THEN TrimLeft(Tail(s)) ELSE s

\* parseInt(s): leading blanks are skipped, an optional sign is read, then
\* the longest run of digits; NaN when there is no digit.  parseInt of
\* undefined is parseInt("undefined"), which is NaN.
ParseInt(s) ==
    IF s = Undefined THEN NaN
    ELSE
      LET t    == TrimLeft(s)
          neg  == t # << >> /\ Head(t) = "-"
          sgn  == t # << >> /\ Head(t) \in {"-", "+"}
          body == IF sgn THEN Tail(t) ELSE t
          n    == DigitPrefixLen(body)
      IN  IF n = 0 THEN NaN
          ELSE IF neg THEN 0 - DigitsValue(SubSeq(body, 1, n))
          ELSE DigitsValue(SubSeq(body, 1, n))

\* Index of the first occurrence of character c in s, 0 when there is none.
RECURSIVE IndexOf(_, _)
IndexOf(s, c) ==
    IF s = << >> THEN 0
    ELSE IF Head(s) = c THEN 1
    ELSE LET i == IndexOf(Tail(s), c) IN IF i = 0 THEN 0 ELSE i + 1

\* s.split(c): the pieces of s between the occurrences of c.
RECURSIVE Split(_, _)
Split(s, c) ==
    LET i == IndexOf(s, c)
    IN  IF i = 0 THEN << s >>
        ELSE << SubSeq(s, 1, i - 1) >> \o Split(SubSeq(s, i + 1, Len(s)), c)

\* const [a, b] = parts: an element that is not there is undefined.
Part(parts, i) == IF i <= Len(parts) THEN parts[i] ELSE Undefined

\* s.replace(c, ''): the first occurrence of c is removed.
ReplaceFirst(s, c) ==
    LET i == IndexOf(s, c)
    IN  IF i = 0 THEN s
        ELSE SubSeq(s, 1, i - 1) \o SubSeq(s, i + 1, Len(s))

\* ------------------------------------------------------------------------
\* Calendar arithmetic of the Date object
\* ------------------------------------------------------------------------

\* Day number (days since 1970-01-01) of the civil date y-m-d.
DaysFromCivil(y, m, d) ==
    LET yy  == IF m <= 2 THEN y - 1 ELSE y
        era == yy \div 400
        yoe == yy - era * 400
        mp  == (m + 9) % 12
        doy == (153 * mp + 2) \div 5 + d - 1
        doe == yoe * 365 + yoe \div 4 - yoe \div 100 + doy
    IN  era * 146097 + doe - 719468

\* Civil date << y, m, d >> of a day number.
CivilFromDays(z) ==
    LET zz  == z + 719468
        era == zz \div 146097
        doe == zz - era * 146097
        yoe == (doe - doe \div 1460 + doe \div 36524 - doe \div 146096) \div 365
        doy == doe - (365 * yoe + yoe \div 4 - yoe \div 100)
        mp  == (5 * doy + 2) \div 153
        d   == doy - (153 * mp + 2) \div 5 + 1
        m   == IF mp < 10 THEN mp + 3 ELSE mp - 9
        y   == yoe + era * 400 + (IF m <= 2 THEN 1 ELSE 0)
    IN  << y, m, d >>

\* Number of days of month m of year y.
DaysInMonth(y, m) ==
    IF m = 12 THEN 31
    ELSE DaysFromCivil(y, m + 1, 1) - DaysFromCivil(y, m, 1)

\* date.toISOString().split('T')[0]: the UTC calendar date of an instant.
IsoDate(t) == CivilFromDays(t \div 1440)

\* new Date(year, monthIndex, day): local midnight of that day, where a
\* month index of 12 is January of the next year and day 0 is the last day
\* of the month before.
MakeLocalDate(tz, y, monthIndex, day) ==
    (DaysFromCivil(y + monthIndex \div 12, (monthIndex % 12) + 1, 1) + day - 1)
        * 1440 - tz

\* date.setHours(h, m, 0, 0): the local calendar day is kept, the local
\* time of day replaced; NaN in gives NaN out.
SetHours(tz, t, h, m) ==
    IF t = NaN \/ h = NaN \/ m = NaN THEN NaN
    ELSE ((t + tz) \div 1440) * 1440 + h * 60 + m - tz

\* date.getHours(): the local hour of the day.
GetHours(tz, t) == IF t = NaN THEN NaN ELSE ((t + tz) % 1440) \div 60

\* date.setHours(h): as setHours, the local minutes being kept.
SetHoursOnly(tz, t, h) ==
    IF t = NaN \/ h = NaN THEN NaN
    ELSE SetHours(tz, t, h, (t + tz) % 60)

\* a + b on numbers: NaN is absorbing.
Plus(a, b) == IF a = NaN \/ b = NaN THEN NaN ELSE a + b

\* date.getDay(): the local day of the week, Sunday being 0.
GetDay(tz, t) == (((t + tz) \div 1440) + 4) % 7

\* Two digits at positions i, i+1 of s, or NaN.
Num2(s, i) ==
    IF s[i] \in Digits /\ s[i + 1] \in Digits
    THEN 10 * DigitVal(s[i]) + DigitVal(s[i + 1]) ELSE NaN

\* Four digits at positions i..i+3 of s, or NaN.
Num4(s, i) ==
    IF Num2(s, i) = NaN \/ Num2(s, i + 2) = NaN THEN NaN
    ELSE 100 * Num2(s, i) + Num2(s, i + 2)

\* The date part YYYY-MM-DD at the head of s: its day number, or NaN.
ParseDay(s) ==
    IF Len(s) < 10 \/ s[5] # "-" \/ s[8] # "-" THEN NaN
    ELSE LET y == Num4(s, 1)
             m == Num2(s, 6)
             d == Num2(s, 9)
         IN  IF y = NaN \/ m = NaN \/ d = NaN THEN NaN
             ELSE IF m < 1 \/ m > 12 \/ d < 1 THEN NaN
             ELSE IF d > DaysInMonth(y, m) THEN NaN
             ELSE DaysFromCivil(y, m, d)

\* new Date(s) for the two ISO forms the model's inputs use: the date-only
\* form YYYY-MM-DD (midnight UTC) and the form YYYY-MM-DDTHH:mmZ (UTC).
\* Every other string of the model's inputs is one the engine rejects too,
\* and undefined gives an Invalid Date.
ParseDate(s) ==
    IF s = Undefined THEN NaN
    ELSE IF Len(s) = 10 THEN
        (IF ParseDay(s) = NaN THEN NaN ELSE ParseDay(s) * 1440)
    ELSE IF Len(s) = 17 /\ s[11] = "T" /\ s[14] = ":" /\ s[17] = "Z" THEN
        LET dd == ParseDay(s)
            hh == Num2(s, 12)
            mm == Num2(s, 15)
        IN  IF dd = NaN \/ hh = NaN \/ mm = NaN THEN NaN
            ELSE IF hh > 23 \/ mm > 59 THEN NaN
            ELSE dd * 1440 + hh * 60 + mm
    ELSE NaN

\* ------------------------------------------------------------------------
\* Utility functions of the server
\* ------------------------------------------------------------------------

\* isWeekend(date): only Sunday, read in the server's local time.
isWeekend(tz, t) == t # NaN /\ GetDay(tz, t) = 0

\* The fixed holidays as << month, day >>.
holidays ==
    { << 1, 1 >>, << 1, 6 >>, << 4, 25 >>, << 5, 1 >>, << 6, 2 >>,
      << 8, 15 >>, << 11, 1 >>, << 12, 8 >>, << 12, 25 >>, << 12, 26 >> }

\* isHoliday(date) for a valid date: toISOString().slice(5, 10), the UTC
\* month and day, is looked up in the list.  (On an Invalid Date
\* toISOString throws; the callers model that.)
isHoliday(t) == << IsoDate(t)[2], IsoDate(t)[3] >> \in holidays

\* getBusinessHours().slots
slots ==
    << << "0", "9", ":", "0", "0" >>, << "1", "0", ":", "0", "0" >>,
       << "1", "1", ":", "0", "0" >>, << "1", "2", ":", "0", "0" >>,
       << "1", "3", ":", "0", "0" >>, << "1", "4", ":", "0", "0" >>,
       << "1", "5", ":", "0", "0" >>, << "1", "6", ":", "0", "0" >>,
       << "1", "7", ":", "0", "0" >> >>

\* ------------------------------------------------------------------------
\* State
\* ------------------------------------------------------------------------

VARIABLES
    tz,          \* offset of the server's time zone, minutes east of UTC
    now,         \* the instant new Date() returns
    events,      \* the events of the external calendar
    nextId,      \* the next event identifier the calendar assigns
    bookings,    \* the Booking documents of the record store
    closedDays,  \* the ClosedDay documents of the record store, in order
    mails,       \* the confirmation mails the transporter has sent
    req,         \* the POST /api/bookings requests, by request
    cal,         \* the GET /api/calendar request in flight
    view         \* the last response of a GET view or of the admin POST

vars == << tz, now, events, nextId, bookings, closedDays, mails, req, cal,
           view >>

\* ------------------------------------------------------------------------
\* Bounds and inputs
\* ------------------------------------------------------------------------

\* Number of POST /api/bookings requests of a behaviour.
MaxReq == 2

\* Number of ClosedDay documents of a behaviour.
MaxClosed == 2

Requests == 1 .. MaxReq

\* Number of POST /api/bookings requests next to the views.
MaxViewReq == 1

ViewRequests == 1 .. MaxViewReq

\* Offsets of the server's zone: UTC and Central European Time.
TzOffsets == { 0, 60 }

\* 2024-04-10T12:00Z, a Wednesday.
NowChoices == { DaysFromCivil(2024, 4, 10) * 1440 + 720 }

\* Date strings: an open Monday, a fixed holiday, a Sunday, the last day of
\* the month (an open Tuesday), a day before today, and a string that is
\* no date.
D15 == << "2", "0", "2", "4", "-", "0", "4", "-", "1", "5" >>
D25 == << "2", "0", "2", "4", "-", "0", "4", "-", "2", "5" >>
D28 == << "2", "0", "2", "4", "-", "0", "4", "-", "2", "8" >>
D30 == << "2", "0", "2", "4", "-", "0", "4", "-", "3", "0" >>
D02 == << "2", "0", "2", "4", "-", "0", "4", "-", "0", "2" >>
DBad == << "s", "o", "o", "n" >>
\* The last day of the month with a time of day.
D30T10 == D30 \o << "T", "1", "0", ":", "0", "0", "Z" >>

S10 == << "1", "0", ":", "0", "0" >>
S11 == << "1", "1", ":", "0", "0" >>
SNoColon == << "1", "0" >>
SBad == << "a", "m" >>

H2 == << "2", "h" >>
H1 == << "1", "h" >>
H0 == << "0", "h" >>
HNeg == << "-", "1", "h" >>
HBad == << "x", "h" >>

Name == << "A" >>

\* The valid request the other requests are variations of.
BaseBody ==
    [ date |-> D15, timeSlot |-> S10, duration |-> H2,
      customerName |-> Name, customerEmail |-> Name, customerPhone |-> Name ]

Fields ==
    { "date", "timeSlot", "duration", "customerName", "customerEmail",
      "customerPhone" }

\* Request bodies: the base request with one field varied.  shootingType
\* and message only reach the event's description and the mail text and are
\* left out.
Bodies ==
    { [ BaseBody EXCEPT !.date = d ] : d \in { D15, D25, D28, DBad } }
    \cup { [ BaseBody EXCEPT !.timeSlot = s ] : s \in { S11, SNoColon, SBad } }
    \cup { [ BaseBody EXCEPT !.duration = h ] : h \in { H1, H0, HNeg, HBad } }
    \cup { [ BaseBody EXCEPT ![f] = Undefined ] : f \in Fields }
    \cup { [ BaseBody EXCEPT ![f] = << >> ] : f \in { "customerPhone" } }

\* ------------------------------------------------------------------------
\* The external calendar
\* ------------------------------------------------------------------------

\* calendar.events.list({ timeMin, timeMax }): the events that end after
\* timeMin and start before timeMax.
EventsList(evs, timeMin, timeMax) ==
    { e \in evs : e.end > timeMin /\ e.start < timeMax }

\* ------------------------------------------------------------------------
\* POST /api/bookings
\* ------------------------------------------------------------------------

\* A request that has not arrived yet.
NoRequest ==
    [ pc |-> "idle", body |-> BaseBody, status |-> 0, start |-> 0,
      end |-> 0, evId |-> 0, calls |-> << >> ]

\* The validation without its test of customerPhone.
MissingFieldsNoPhone(b) ==
    \/ Falsy(b.date) \/ Falsy(b.timeSlot) \/ Falsy(b.duration)
    \/ Falsy(b.customerName) \/ Falsy(b.customerEmail)

\* The test of "Validate required fields".
MissingFields(b) ==
    \/ Falsy(b.date) \/ Falsy(b.timeSlot) \/ Falsy(b.duration)
    \/ Falsy(b.customerName) \/ Falsy(b.customerEmail)
    \/ Falsy(b.customerPhone)

\* bookingDate: new Date(date), then setHours(parseInt(hours),
\* parseInt(minutes), 0, 0) with [hours, minutes] = timeSlot.split(':').
BookingDate(z, b) ==
    LET parts == Split(b.timeSlot, ":")
    IN  SetHours(z, ParseDate(b.date), ParseInt(Part(parts, 1)),
                 ParseInt(Part(parts, 2)))

\* durationHours: parseInt(duration.replace('h', '')).
DurationHours(b) == ParseInt(ReplaceFirst(b.duration, "h"))

\* endDate one hour after bookingDate, whatever the duration.
EndDateOneHour(z, b) == Plus(BookingDate(z, b), 60)

\* endDate: a copy of bookingDate, then
\* setHours(endDate.getHours() + durationHours).
EndDate(z, b) ==
    LET bd == BookingDate(z, b)
    IN  SetHoursOnly(z, bd, Plus(GetHours(z, bd), DurationHours(b)))

\* Building the event calls toISOString on both dates, which throws a
\* RangeError on an Invalid Date.
EventThrows(z, b) == BookingDate(z, b) = NaN \/ EndDate(z, b) = NaN

\* The request arrives: validation, the two dates, the event, and the call
\* of calendar.events.insert.  Requests are numbered in order of arrival.
PostBooking(r, b) ==
    /\ req[r].pc = "idle"
    /\ \A q \in Requests : q < r => req[q].pc # "idle"
    /\ IF MissingFields(b)
       THEN req' = [req EXCEPT ![r].pc = "done", ![r].body = b,
                               ![r].status = 400]
       ELSE IF EventThrows(tz, b)
       THEN req' = [req EXCEPT ![r].pc = "done", ![r].body = b,
                               ![r].status = 500]
       ELSE req' = [req EXCEPT ![r].pc = "insert", ![r].body = b,
                               ![r].start = BookingDate(tz, b),
                               ![r].end = EndDate(tz, b),
                               ![r].calls = << "insert" >>]
    /\ UNCHANGED << tz, now, events, nextId, bookings, closedDays, mails,
                    cal, view >>

\* calendar.events.insert that refuses an interval the calendar holds.
InsertOkExclusive(r) ==
    /\ req[r].pc = "insert"
    /\ \A e \in events : ~ (e.start < req[r].end /\ req[r].start < e.end)
    /\ events' = events \cup
           { [ id |-> nextId, start |-> req[r].start, end |-> req[r].end,
               timed |-> TRUE ] }
    /\ nextId' = nextId + 1
    /\ req' = [req EXCEPT ![r].pc = "save", ![r].evId = nextId,
                          ![r].calls = Append(@, "save")]
    /\ UNCHANGED << tz, now, bookings, closedDays, mails, cal, view >>

\* calendar.events.insert resolves: the calendar holds the event and has
\* assigned its identifier; the handler builds the Booking and calls save.
InsertOk(r) ==
    /\ req[r].pc = "insert"
    /\ events' = events \cup
           { [ id |-> nextId, start |-> req[r].start, end |-> req[r].end,
               timed |-> TRUE ] }
    /\ nextId' = nextId + 1
    /\ req' = [req EXCEPT ![r].pc = "save", ![r].evId = nextId,
                          ![r].calls = Append(@, "save")]
    /\ UNCHANGED << tz, now, bookings, closedDays, mails, cal, view >>

\* A catch block that ends the handler without answering.
FailSilent(r) == [req EXCEPT ![r].pc = "done"]

\* The catch block: 500 'Failed to create booking'.
Fail(r) == [req EXCEPT ![r].pc = "done", ![r].status = 500]

\* calendar.events.insert rejects and the call is made once more.
InsertFailRetry(r) ==
    /\ req[r].pc = "insert"
    /\ Len(req[r].calls) < 3
    /\ req' = [req EXCEPT ![r].calls = Append(@, "insert")]
    /\ UNCHANGED << tz, now, events, nextId, bookings, closedDays, mails,
                    cal, view >>

\* calendar.events.insert rejects.
InsertFail(r) ==
    /\ req[r].pc = "insert"
    /\ req' = Fail(r)
    /\ UNCHANGED << tz, now, events, nextId, bookings, closedDays, mails,
                    cal, view >>

\* The Booking document without the event's identifier.
BookingDocUnkeyed(r) ==
    [ id |-> 0, date |-> req[r].start, startTime |-> req[r].start,
      endTime |-> req[r].end, duration |-> req[r].body.duration,
      googleEventId |-> 0 ]

\* The Booking document of a request.
BookingDoc(r) ==
    [ id |-> req[r].evId, date |-> req[r].start, startTime |-> req[r].start,
      endTime |-> req[r].end, duration |-> req[r].body.duration,
      googleEventId |-> req[r].evId ]

\* booking.save() resolves: the document is stored; the handler calls
\* transporter.sendMail.
SaveOk(r) ==
    /\ req[r].pc = "save"
    /\ bookings' = bookings \cup { BookingDoc(r) }
    /\ req' = [req EXCEPT ![r].pc = "mail", ![r].calls = Append(@, "mail")]
    /\ UNCHANGED << tz, now, events, nextId, closedDays, mails, cal, view >>

\* booking.save() rejects and the event is deleted again.
SaveFailCompensating(r) ==
    /\ req[r].pc = "save"
    /\ req' = Fail(r)
    /\ events' = { e \in events : e.id # req[r].evId }
    /\ UNCHANGED << tz, now, nextId, bookings, closedDays, mails, cal,
                    view >>

\* booking.save() rejects.
SaveFail(r) ==
    /\ req[r].pc = "save"
    /\ req' = Fail(r)
    /\ UNCHANGED << tz, now, events, nextId, bookings, closedDays, mails,
                    cal, view >>

\* transporter.sendMail resolves: the mail is out, the success payload is
\* the response.
MailOk(r) ==
    /\ req[r].pc = "mail"
    /\ mails' = mails \cup { [ req |-> r, to |-> req[r].body.customerEmail ] }
    /\ req' = [req EXCEPT ![r].pc = "done", ![r].status = 200]
    /\ UNCHANGED << tz, now, events, nextId, bookings, closedDays, cal,
                    view >>

\* transporter.sendMail rejects: the await throws into the catch block.
MailFail(r) ==
    /\ req[r].pc = "mail"
    /\ req' = Fail(r)
    /\ UNCHANGED << tz, now, events, nextId, bookings, closedDays, mails,
                    cal, view >>

\* ------------------------------------------------------------------------
\* POST /api/admin/closed-days
\* ------------------------------------------------------------------------

\* The values of the schema's enum for type.
ClosedTypes == { "holiday", "maintenance", "personal" }

\* The document passes the schema: the date casts to a Date and the type,
\* 'personal' when absent, is one of the enum.
ClosedDayValid(d, type) ==
    /\ ParseDate(d) # NaN
    /\ type = "undefined" \/ type \in ClosedTypes

\* A response of the handler, with the date and type it was called with;
\* error stands for error.message: the schema's validation error or the
\* store's error.
ClosedResponse(d, type, status, error) ==
    [ kind |-> "closed", status |-> status, arg |-> << d, type >>,
      data |-> << >>, seen |-> {}, error |-> error ]

\* The handler storing nothing for a date that already has a record.
AddClosedDayDedup(d, type, saveOk) ==
    /\ Len(closedDays) < MaxClosed
    /\ IF ClosedDayValid(d, type) /\ saveOk
       THEN /\ closedDays' =
                  IF \E i \in 1 .. Len(closedDays) :
                         closedDays[i].date = ParseDate(d)
                  THEN closedDays
                  ELSE Append(closedDays,
                         [ date |-> ParseDate(d),
                           type |-> IF type = "undefined" THEN "personal"
                                    ELSE type ])
            /\ view' = ClosedResponse(d, type, 200, "")
       ELSE /\ closedDays' = closedDays
            /\ view' = ClosedResponse(d, type, 500,
                           IF ClosedDayValid(d, type) THEN "store"
                           ELSE "validation")
    /\ UNCHANGED << tz, now, events, nextId, bookings, mails, req, cal >>

\* The handler: new ClosedDay({ date: new Date(date), reason, type }) and
\* save; a document the schema rejects, and a save that fails, give 500.
AddClosedDay(d, type, saveOk) ==
    /\ Len(closedDays) < MaxClosed
    /\ IF ClosedDayValid(d, type) /\ saveOk
       THEN /\ closedDays' = Append(closedDays,
                  [ date |-> ParseDate(d),
                    type |-> IF type = "undefined" THEN "personal" ELSE type ])
            /\ view' = ClosedResponse(d, type, 200, "")
       ELSE /\ closedDays' = closedDays
            /\ view' = ClosedResponse(d, type, 500,
                           IF ClosedDayValid(d, type) THEN "store"
                           ELSE "validation")
    /\ UNCHANGED << tz, now, events, nextId, bookings, mails, req, cal >>

\* ------------------------------------------------------------------------
\* GET /api/slots/:date
\* ------------------------------------------------------------------------

\* new Date().setHours(0, 0, 0, 0): local start of the current day.
TodayStart == SetHours(tz, now, 0, 0)

\* startOfDay and endOfDay of the request's date.  endOfDay is 23:59:59.999;
\* as timeMax it admits the same whole-minute starts as the next midnight.
StartOfDay(t) == SetHours(tz, t, 0, 0)
EndOfDay(t) == SetHours(tz, t, 23, 59) + 1

\* slotTime of a grid slot on the request's date.
SlotTime(t, timeSlot) ==
    LET parts == Split(timeSlot, ":")
    IN  SetHours(tz, t, ParseInt(Part(parts, 1)), ParseInt(Part(parts, 2)))

\* isOccupied with the interval's end included.
IsOccupiedClosedEnd(items, slotTime) ==
    \E e \in items : e.timed /\ slotTime >= e.start /\ slotTime <= e.end

\* isOccupied: some event with both dateTimes has the slot in [start, end).
IsOccupied(items, slotTime) ==
    \E e \in items : e.timed /\ slotTime >= e.start /\ slotTime < e.end

\* availableSlots: one entry per grid slot, in the grid's order.
AvailableSlots(t, items) ==
    [ i \in 1 .. Len(slots) |->
        [ time |-> slots[i],
          available |-> ~ IsOccupied(items, SlotTime(t, slots[i])),
          datetime |-> SlotTime(t, slots[i]) ] ]

\* A response of the day view.  seen is history: the calendar's events at
\* the moment its list call was answered, empty when it was not called.
DayResponse(d, status, data, seen) ==
    [ kind |-> "day", status |-> status, arg |-> d, data |-> data,
      seen |-> seen,
      error |-> IF status = 500 THEN "Failed to fetch time slots" ELSE "" ]

\* The day view with the calendar asked before the date is looked at.
SlotsResponseListFirst(d, listOk) ==
    LET requestDate == ParseDate(d)
    IN  IF ~ listOk
        THEN DayResponse(d, 500, << >>, {})
        ELSE IF requestDate # NaN /\ requestDate < TodayStart
        THEN DayResponse(d, 200, << >>, events)
        ELSE IF isWeekend(tz, requestDate)
        THEN DayResponse(d, 200, << >>, events)
        ELSE IF requestDate = NaN
        THEN DayResponse(d, 500, << >>, events)
        ELSE IF isHoliday(requestDate)
        THEN DayResponse(d, 200, << >>, events)
        ELSE DayResponse(d, 200,
                 AvailableSlots(requestDate,
                     EventsList(events, StartOfDay(requestDate),
                                EndOfDay(requestDate))),
                 events)

\* The response of the day view for the date string d, the calendar's list
\* call succeeding or not.
SlotsResponse(d, listOk) ==
    LET requestDate == ParseDate(d)
    IN  IF requestDate # NaN /\ requestDate < TodayStart
        THEN DayResponse(d, 200, << >>, {})
        ELSE IF isWeekend(tz, requestDate)
        THEN DayResponse(d, 200, << >>, {})
        ELSE IF requestDate = NaN
        THEN \* isHoliday: toISOString throws on the Invalid Date
             DayResponse(d, 500, << >>, {})
        ELSE IF isHoliday(requestDate)
        THEN DayResponse(d, 200, << >>, {})
        ELSE IF ~ listOk
        THEN DayResponse(d, 500, << >>, {})
        ELSE DayResponse(d, 200,
                 AvailableSlots(requestDate,
                     EventsList(events, StartOfDay(requestDate),
                                EndOfDay(requestDate))),
                 events)

\* The handler.  Its one await is the calendar's list call, and nothing it
\* computes before that call depends on the stores, so it is one step, taken
\* when the list call returns.
GetSlots(d, listOk) ==
    /\ view' = SlotsResponse(d, listOk)
    /\ UNCHANGED << tz, now, events, nextId, bookings, closedDays, mails,
                    req, cal >>

\* ------------------------------------------------------------------------
\* GET /api/calendar/:year/:month
\* ------------------------------------------------------------------------

\* No month view in flight.  In a request, items is the answer of the
\* calendar's list call and seen is history: the calendar's events at the
\* moment of that answer.
NoCalendar ==
    [ pc |-> "idle", year |-> 0, month |-> 0, items |-> {}, seen |-> {} ]

\* startDate = new Date(year, month - 1, 1), endDate = new Date(year, month, 0)
StartDate(y, m) == MakeLocalDate(tz, y, m - 1, 1)
EndDateOfMonth(y, m) == MakeLocalDate(tz, y, m, 0)

\* The request arrives and calendar.events.list returns: the events between
\* startDate and endDate are kept for the second step.
GetCalendarList(y, m) ==
    /\ cal.pc = "idle"
    /\ cal' = [ pc |-> "find", year |-> y, month |-> m,
                items |-> EventsList(events, StartDate(y, m),
                                     EndDateOfMonth(y, m)),
                seen |-> events ]
    /\ UNCHANGED << tz, now, events, nextId, bookings, closedDays, mails,
                    req, view >>

\* calendar.events.list rejects: 500.
GetCalendarListFail(y, m) ==
    /\ cal.pc = "idle"
    /\ view' = [ kind |-> "month", status |-> 500, arg |-> << y, m >>,
                 data |-> << >>, seen |-> {},
                 error |-> "Failed to fetch calendar data" ]
    /\ UNCHANGED << tz, now, events, nextId, bookings, closedDays, mails,
                    req, cal >>

\* ClosedDay.find({ date: { $gte: startDate, $lte: endDate } })
FindClosedDays(startDate, endDate) ==
    { closedDays[i].date : i \in
        { j \in 1 .. Len(closedDays) :
            closedDays[j].date >= startDate /\ closedDays[j].date <= endDate } }

\* The events of items that start on the UTC date of currentDate.
EventsOn(items, currentDate) ==
    { e \in items : e.timed /\ IsoDate(e.start) = IsoDate(currentDate) }

\* The entry pushed for currentDate.
CalendarEntry(currentDate, found, items) ==
    LET isClosed    == \E cd \in found : IsoDate(cd) = IsoDate(currentDate)
        hasBookings == EventsOn(items, currentDate) # {}
        closed      == isWeekend(tz, currentDate) \/ isHoliday(currentDate)
                          \/ isClosed
    IN  [ date |-> IsoDate(currentDate),
          status |-> IF closed THEN "closed"
                     ELSE IF hasBookings THEN "occupied" ELSE "available",
          bookings |-> Cardinality(EventsOn(items, currentDate)) ]

\* The while loop: from currentDate to endDate, a day at a time.
RECURSIVE CalendarData(_, _, _, _)
CalendarData(currentDate, endDate, found, items) ==
    IF currentDate <= endDate
    THEN << CalendarEntry(currentDate, found, items) >>
           \o CalendarData(currentDate + 1440, endDate, found, items)
    ELSE << >>

\* ClosedDay.find returns: the entries are computed and sent.
GetCalendarFind ==
    /\ cal.pc = "find"
    /\ view' = [ kind |-> "month", status |-> 200,
                 arg |-> << cal.year, cal.month >>,
                 data |-> CalendarData(StartDate(cal.year, cal.month),
                            EndDateOfMonth(cal.year, cal.month),
                            FindClosedDays(StartDate(cal.year, cal.month),
                                           EndDateOfMonth(cal.year, cal.month)),
                            cal.items),
                 seen |-> cal.seen, error |-> "" ]
    /\ cal' = NoCalendar
    /\ UNCHANGED << tz, now, events, nextId, bookings, closedDays, mails,
                    req >>

\* ClosedDay.find rejects: 500.
GetCalendarFindFail ==
    /\ cal.pc = "find"
    /\ view' = [ kind |-> "month", status |-> 500,
                 arg |-> << cal.year, cal.month >>, data |-> << >>,
                 seen |-> {}, error |-> "Failed to fetch calendar data" ]
    /\ cal' = NoCalendar
    /\ UNCHANGED << tz, now, events, nextId, bookings, closedDays, mails,
                    req >>

\* ------------------------------------------------------------------------
\* Specifications
\* ------------------------------------------------------------------------

NoView ==
    [ kind |-> "none", status |-> 0, arg |-> << >>, data |-> << >>,
      seen |-> {}, error |-> "" ]

\* The server has started: the stores are empty and no request has arrived.
\* (The handlers are modelled as written; that the module loads, line 67's
\* nodemailer.createTransporter included, is taken for granted.)
Init ==
    /\ tz \in TzOffsets
    /\ now \in NowChoices
    /\ events = {}
    /\ nextId = 1
    /\ bookings = {}
    /\ closedDays = << >>
    /\ mails = {}
    /\ req = [ r \in Requests |-> NoRequest ]
    /\ cal = NoCalendar
    /\ view = NoView

\* The steps of the booking transactions of rs after their arrival.
BookingSteps(rs) ==
    \E r \in rs :
        \/ InsertOk(r)
        \/ InsertFail(r)
        \/ SaveOk(r)
        \/ SaveFail(r)
        \/ MailOk(r)
        \/ MailFail(r)

\* The booking transactions alone, over all the request bodies.
Next ==
    \/ \E r \in Requests, b \in Bodies : PostBooking(r, b)
    \/ BookingSteps(Requests)

Spec == Init /\ [][Next]_vars

\* Inputs of the views: two valid bookings (an ordinary day and the last
\* day of the month), the declared closures, and the dates and months asked
\* for.
ViewBodies ==
    { [ BaseBody EXCEPT !.date = d ] : d \in { D15, D30 } }

ClosedInputs ==
    { << D15, "undefined" >>, << D30T10, "holiday" >>, << D30, "party" >>,
      << DBad, "personal" >> }

SlotDates == { D15, D25, D28, D30, D02, DBad }

MonthInputs == { << 2024, 4 >>, << 2024, 12 >> }

\* Bookings and declared closures next to the views.
Stores ==
    \/ \E r \in ViewRequests, b \in ViewBodies : PostBooking(r, b)
    \/ BookingSteps(ViewRequests)
    \/ \E c \in ClosedInputs, ok \in BOOLEAN : AddClosedDay(c[1], c[2], ok)

\* An all-day event of 2024-04-15, entered in the calendar by its owner: it
\* has start.date and end.date and no dateTime.
AllDayEvent ==
    [ id |-> 0, start |-> DaysFromCivil(2024, 4, 15) * 1440,
      end |-> DaysFromCivil(2024, 4, 16) * 1440, timed |-> FALSE ]

\* As Init, the calendar holding the all-day event or not.
InitDay ==
    /\ tz \in TzOffsets
    /\ now \in NowChoices
    /\ events \in { {}, { AllDayEvent } }
    /\ nextId = 1
    /\ bookings = {}
    /\ closedDays = << >>
    /\ mails = {}
    /\ req = [ r \in Requests |-> NoRequest ]
    /\ cal = NoCalendar
    /\ view = NoView

\* The bookings next to the day view: the valid request for 2024-04-15.
DayBodies == { BaseBody }

\* Bookings and declared closures next to the day view.
DayStores ==
    \/ \E r \in ViewRequests, b \in DayBodies : PostBooking(r, b)
    \/ BookingSteps(ViewRequests)
    \/ \E c \in ClosedInputs, ok \in BOOLEAN : AddClosedDay(c[1], c[2], ok)

\* The day view over changing stores.
NextDay ==
    \/ DayStores
    \/ \E d \in SlotDates, ok \in BOOLEAN : GetSlots(d, ok)

SpecDay == InitDay /\ [][NextDay]_vars

\* The month view over changing stores.
NextMonth ==
    \/ Stores
    \/ \E ym \in MonthInputs : GetCalendarList(ym[1], ym[2])
    \/ \E ym \in MonthInputs : GetCalendarListFail(ym[1], ym[2])
    \/ GetCalendarFind
    \/ GetCalendarFindFail

SpecMonth == Init /\ [][NextMonth]_vars

\* Bodies for the run to completion of the handler: the valid request, one
\* that fails validation and one whose dates make the event throw.
LiveBodies ==
    { BaseBody, [ BaseBody EXCEPT !.customerPhone = Undefined ],
      [ BaseBody EXCEPT !.date = DBad ] }

NextLive ==
    \/ \E r \in Requests, b \in LiveBodies : PostBooking(r, b)
    \/ BookingSteps(Requests)

\* Every call the handler awaits returns: the promise of insert, of save and
\* of sendMail settles, fulfilled or rejected.  Nothing obliges a request to
\* arrive.
CallsReturn ==
    \A r \in Requests :
        /\ WF_vars(InsertOk(r) \/ InsertFail(r))
        /\ WF_vars(SaveOk(r) \/ SaveFail(r))
        /\ WF_vars(MailOk(r) \/ MailFail(r))

SpecLive == Init /\ [][NextLive]_vars /\ CallsReturn

\* ------------------------------------------------------------------------
\* Properties
\* ------------------------------------------------------------------------

\* Two Booking documents whose [startTime, endTime) intervals share an
\* instant.
Overlap(a, b) == a.startTime < b.endTime /\ b.startTime < a.endTime

\* C1: no two persisted Booking records have overlapping
\* [startTime, endTime) intervals.
C1_NoOverlappingBookings ==
    \A a \in bookings : \A b \in bookings : a.id # b.id => ~ Overlap(a, b)

\* A required field is absent from the body.
FieldAbsent(b) == \E f \in Fields : b[f] = Undefined

\* Request r has made no collaborator call and left nothing behind: no
\* event identifier, no Booking document, no mail.
NoSideEffects(r) ==
    /\ req[r].calls = << >>
    /\ req[r].evId = 0
    /\ \A m \in mails : m.req # r

\* C2: a booking request with a required field missing is answered 400 and
\* has no side effect: no calendar event, no Booking record, no mail.
C2_MissingFieldRejected ==
    \A r \in Requests :
        (req[r].pc # "idle" /\ FieldAbsent(req[r].body)) =>
            /\ req[r].pc = "done"
            /\ req[r].status = 400
            /\ NoSideEffects(r)

\* A request without customerPhone has been answered 400 while another
\* request has gone through to its success payload.
C2_Witness ==
    \E r \in Requests : \E q \in Requests :
        /\ req[r].pc = "done" /\ req[r].body.customerPhone = Undefined
        /\ req[r].status = 400
        /\ req[q].status = 200

\* The event of request r exists and its Booking document is stored.
Persisted(r) ==
    /\ req[r].evId # 0
    /\ \E e \in events : e.id = req[r].evId
    /\ \E b \in bookings : b.id = req[r].evId

\* C3: once the event is created and the Booking persisted, the client gets
\* the success payload, whether or not the mail could be sent.
C3_MailFailureNotSurfaced ==
    \A r \in Requests :
        (req[r].pc = "done" /\ Persisted(r)) => req[r].status = 200

\* Day of the week of a civil date, Sunday being 0.
DayOfWeek(day) == (DaysFromCivil(day[1], day[2], day[3]) + 4) % 7

\* The civil date a date string names, read in UTC as the Date parser does.
DateOf(d) == IsoDate(ParseDate(d))

\* The closure policy of a civil date: the weekly off-day, a fixed holiday,
\* or a ClosedDay record of that calendar date.
PolicyClosed(day) ==
    \/ DayOfWeek(day) = 0
    \/ << day[2], day[3] >> \in holidays
    \/ \E i \in 1 .. Len(closedDays) : IsoDate(closedDays[i].date) = day

\* C4: the day view of a date closed by the weekly off-day, a holiday or a
\* declared closure returns an empty slot list.
C4_ClosedDayViewEmpty ==
    ( /\ view.kind = "day"
      /\ view.status = 200
      /\ ParseDate(view.arg) # NaN
      /\ PolicyClosed(DateOf(view.arg)) )
        => view.data = << >>

\* C5: a booking request for a date that is closed when it arrives (weekly
\* off-day, holiday, ClosedDay record) goes no further than validation: no
\* event is submitted and nothing is stored.
C5_ClosedDateNotBooked ==
    [][ \A r \in Requests :
          ( /\ req[r].pc = "idle"
            /\ req'[r].pc # "idle"
            /\ ParseDate(req'[r].body.date) # NaN
            /\ PolicyClosed(DateOf(req'[r].body.date)) )
              => (req'[r].pc = "done" /\ req'[r].calls = << >>) ]_vars

\* A string of digits, at least one.
AllDigits(s) == s # << >> /\ \A i \in 1 .. Len(s) : s[i] \in Digits

\* A slot time of the form hour:minute.
WellFormedSlot(s) ==
    /\ s # Undefined
    /\ Len(Split(s, ":")) = 2
    /\ AllDigits(Split(s, ":")[1])
    /\ AllDigits(Split(s, ":")[2])

\* A field of the body is present but malformed: a date that does not
\* parse, a slot time not of the form hour:minute, a duration that does not
\* parse to a number of hours.
Malformed(b) ==
    /\ ~ MissingFields(b)
    /\ \/ ParseDate(b.date) = NaN
       \/ ~ WellFormedSlot(b.timeSlot)
       \/ DurationHours(b) = NaN

\* C6: a booking request with a malformed date, slot time or duration is
\* answered 400, and no collaborator is called.
C6_MalformedRejected ==
    \A r \in Requests :
        (req[r].pc # "idle" /\ Malformed(req[r].body)) =>
            /\ req[r].pc = "done"
            /\ req[r].status = 400
            /\ NoSideEffects(r)

\* The hours a duration string asks for.
HoursOf(duration) == ParseInt(ReplaceFirst(duration, "h"))

\* C7: every persisted Booking has endTime = startTime + duration hours,
\* with duration at least 1.
C7_EndIsStartPlusDuration ==
    \A b \in bookings :
        /\ HoursOf(b.duration) >= 1
        /\ b.endTime = b.startTime + 60 * HoursOf(b.duration)

\* The civil date of an instant in the server's zone.
LocalDate(t) == CivilFromDays((t + tz) \div 1440)

\* The civil dates of month m of year y.
DatesOfMonth(y, m) == { << y, m, d >> : d \in 1 .. DaysInMonth(y, m) }

\* The status the month view reports for a civil date, "none" when it has
\* no entry of that date.
StatusOf(day) ==
    IF \E i \in 1 .. Len(view.data) : view.data[i].date = day
    THEN view.data[CHOOSE i \in 1 .. Len(view.data) :
                       view.data[i].date = day].status
    ELSE "none"

\* The last response is a successful month view.
MonthAnswered == view.kind = "month" /\ view.status = 200

\* C8: in the month view, every date of the month on which a busy interval
\* of the calendar starts and that no closure condition closes is occupied.
C8_BusyDateOccupied ==
    MonthAnswered =>
        \A day \in DatesOfMonth(view.arg[1], view.arg[2]) :
            ( /\ \E e \in view.seen : e.timed /\ LocalDate(e.start) = day
              /\ ~ PolicyClosed(day) )
                => StatusOf(day) = "occupied"

\* C9: in the month view, every date of the month with a ClosedDay record
\* of that calendar date is closed.
C9_DeclaredClosureClosed ==
    MonthAnswered =>
        \A day \in DatesOfMonth(view.arg[1], view.arg[2]) :
            (\E i \in 1 .. Len(closedDays) :
                 IsoDate(closedDays[i].date) = day)
                => StatusOf(day) = "closed"

\* C10: the month view has one entry per calendar date of the month, in
\* ascending order, each with a busy count of at least zero.
C10_OneEntryPerDate ==
    MonthAnswered =>
        /\ Len(view.data) = DaysInMonth(view.arg[1], view.arg[2])
        /\ \A i \in 1 .. Len(view.data) :
              /\ view.data[i].date = << view.arg[1], view.arg[2], i >>
              /\ view.data[i].bookings >= 0

\* The character of a digit.
DigitChar(n) == CHOOSE c \in Digits : DigitVal(c) = n

\* The slot time hh:00 of an hour.
HourString(h) ==
    << DigitChar(h \div 10), DigitChar(h % 10), ":", "0", "0" >>

\* The instant of hour h, local time, on a civil date.
GridInstant(day, h) ==
    DaysFromCivil(day[1], day[2], day[3]) * 1440 + h * 60 - tz

\* The civil date lies before the current day of the server.
PastDate(day) ==
    DaysFromCivil(day[1], day[2], day[3]) < (now + tz) \div 1440

\* The last response is a successful day view of a date that is neither
\* past nor closed.
OpenDayAnswered ==
    /\ view.kind = "day"
    /\ view.status = 200
    /\ ParseDate(view.arg) # NaN
    /\ ~ PastDate(DateOf(view.arg))
    /\ ~ PolicyClosed(DateOf(view.arg))

\* Some busy interval the calendar held when it was asked has the instant
\* in [start, end).
Busy(t) == \E e \in view.seen : e.timed /\ e.start <= t /\ t < e.end

\* C11: the day view of a date neither past nor closed has the 9 grid slots
\* 09:00 .. 17:00 in order, a slot being unavailable exactly when its
\* instant lies in [start, end) of a busy interval of the calendar.
C11_SlotsReflectBusyIntervals ==
    OpenDayAnswered =>
        /\ Len(view.data) = 9
        /\ \A i \in 1 .. 9 :
              /\ view.data[i].time = HourString(8 + i)
              /\ view.data[i].datetime = GridInstant(DateOf(view.arg), 8 + i)
              /\ view.data[i].available
                    <=> ~ Busy(GridInstant(DateOf(view.arg), 8 + i))

\* The day view of 2024-04-15 with a booking 10:00-12:00 and an all-day
\* event in the calendar: 09:00 free, 10:00 and 11:00 taken, 12:00 free.
C11_Witness ==
    /\ OpenDayAnswered
    /\ view.arg = D15
    /\ AllDayEvent \in view.seen
    /\ view.data[1].available
    /\ ~ view.data[2].available
    /\ ~ view.data[3].available
    /\ view.data[4].available

\* C12: the day view of a date before the current day is a success with an
\* empty slot list, whether or not the calendar would answer, and the
\* calendar is not asked.
C12_PastDayEmpty ==
    ( /\ view.kind = "day"
      /\ ParseDate(view.arg) # NaN
      /\ PastDate(DateOf(view.arg)) )
        => /\ view.status = 200
           /\ view.data = << >>
           /\ view.seen = {}
           /\ view.error = ""

\* The day view of 2024-04-02, eight days back, answered while the
\* calendar holds events.
C12_Witness ==
    /\ view.kind = "day"
    /\ view.arg = D02
    /\ view.status = 200
    /\ view.data = << >>
    /\ events # {}

\* A step in which POST /api/admin/closed-days is answered.
ClosedDayCall ==
    /\ view'.kind = "closed"
    /\ view' # view \/ closedDays' # closedDays

\* No step removes or changes a ClosedDay record.
ClosedDaysKept ==
    /\ Len(closedDays') >= Len(closedDays)
    /\ \A i \in 1 .. Len(closedDays) : closedDays'[i] = closedDays[i]

\* C13 as claimed: every call of addClosedDay that the store does not fail
\* adds exactly one record, and no step removes or changes a record.
C13_EveryCallStoresOne ==
    [][ /\ (ClosedDayCall /\ view'.error # "store")
            => Len(closedDays') = Len(closedDays) + 1
        /\ ClosedDaysKept ]_vars

\* The date parses and the type is absent or one of the schema's three.
AcceptedByTheSchema(d, type) ==
    /\ ParseDate(d) # NaN
    /\ type \in { "undefined", "holiday", "maintenance", "personal" }

\* C13 amended: a call whose date parses and whose type the schema admits
\* adds exactly one record unless the store fails, also when the date has a
\* record already; every other call adds nothing and is answered 500; and
\* no step removes or changes a record.
C13_AcceptedCallStoresOne ==
    [][ /\ ClosedDayCall =>
              LET d == view'.arg[1]
                  type == view'.arg[2]
              IN  /\ view'.status = 200 =>
                        /\ AcceptedByTheSchema(d, type)
                        /\ Len(closedDays') = Len(closedDays) + 1
                        /\ closedDays'[Len(closedDays')].date = ParseDate(d)
                  /\ view'.status # 200 =>
                        /\ view'.status = 500
                        /\ closedDays' = closedDays
                        /\ AcceptedByTheSchema(d, type)
                              => view'.error = "store"
        /\ ClosedDaysKept ]_vars

\* Two records of the same date are stored, the second call answered 200.
C13_Witness ==
    /\ Len(closedDays) = 2
    /\ closedDays[1].date = closedDays[2].date
    /\ view.kind = "closed"
    /\ view.status = 200

\* Request r has had its mail sent.
Mailed(r) == \E m \in mails : m.req = r

\* The Booking document keyed by the event of request r is stored.
Stored(r) == req[r].evId # 0 /\ \E b \in bookings : b.id = req[r].evId

\* C14: every persisted Booking is keyed by the identifier of an event that
\* its request created before, a mail is sent only for a request whose
\* Booking is persisted already, and the success payload follows the mail.
C14_StepsInOrder ==
    /\ [] ( \A b \in bookings :
               /\ \E e \in events : e.id = b.id
               /\ \E r \in Requests : req[r].evId = b.id )
    /\ [][ /\ \A b \in bookings' \ bookings :
                 /\ \E e \in events : e.id = b.id
                 /\ \E r \in Requests :
                       req[r].pc = "save" /\ req[r].evId = b.id
           /\ \A m \in mails' \ mails : req[m.req].pc = "mail" /\ Stored(m.req)
           /\ \A r \in Requests :
                 (req[r].status # 200 /\ req'[r].status = 200)
                     => \E m \in mails' : m.req = r ]_vars

\* A request has gone through all four steps.
C14_Witness ==
    \E r \in Requests :
        req[r].status = 200 /\ Stored(r) /\ Mailed(r)
            /\ \E e \in events : e.id = req[r].evId

\* C15: a failed transaction stops where it failed and undoes nothing: a
\* created event stays in the calendar, a stored Booking stays stored, no
\* later step is attempted, and the answer, 500, is final.  When the event
\* was created and the Booking was not stored, no mail is sent.
C15_FailureAbortsWithoutUndo ==
    /\ [] ( \A r \in Requests :
               (req[r].pc = "done" /\ req[r].status = 500) =>
                   /\ req[r].evId # 0 => \E e \in events : e.id = req[r].evId
                   /\ req[r].evId = 0 => req[r].calls \in { << >>, << "insert" >> }
                   /\ ~ Stored(r) =>
                         /\ ~ Mailed(r)
                         /\ \A i \in 1 .. Len(req[r].calls) :
                               req[r].calls[i] # "mail"
                   /\ (req[r].calls = << "insert", "save", "mail" >>)
                         => Stored(r) /\ ~ Mailed(r) )
    /\ [][ \A r \in Requests :
              req[r].pc = "done" => req'[r] = req[r] ]_vars

\* A request whose event was created and whose save failed: the event is in
\* the calendar, no Booking has its identifier, the answer is 500.
C15_Witness ==
    \E r \in Requests :
        /\ req[r].pc = "done" /\ req[r].status = 500
        /\ req[r].calls = << "insert", "save" >>
        /\ \E e \in events : e.id = req[r].evId
        /\ ~ Stored(r)
        /\ ~ Mailed(r)

\* C16: a request calls insert, save and sendMail at most once each, in
\* that order; the calendar holds one event per request that got an
\* identifier and the store one Booking per request whose save succeeded;
\* a request answered with success has exactly one event and one Booking,
\* the Booking carrying the event's identifier.
C16_NoRetry ==
    /\ \A r \in Requests :
          /\ req[r].calls \in { << >>, << "insert" >>, << "insert", "save" >>,
                                << "insert", "save", "mail" >> }
          /\ req[r].status = 200 =>
                /\ req[r].evId # 0
                /\ Cardinality({ e \in events : e.id = req[r].evId }) = 1
                /\ Cardinality({ b \in bookings :
                                   b.googleEventId = req[r].evId }) = 1
    /\ Cardinality(events) = Cardinality({ r \in Requests : req[r].evId # 0 })
    /\ Cardinality(bookings) = Cardinality({ r \in Requests : Stored(r) })
    /\ \A r \in Requests : \A q \in Requests :
          (r # q /\ req[r].evId # 0) => req[r].evId # req[q].evId

\* One request answered with success, another answered 500 after its one
\* insert call failed.
C16_Witness ==
    \E r \in Requests : \E q \in Requests :
        /\ req[r].status = 200
        /\ req[q].pc = "done" /\ req[q].status = 500
        /\ req[q].calls = << "insert" >>

\* Requests r and q are in flight for the same interval.
SameInterval(r, q) ==
    /\ r # q
    /\ req[r].pc # "idle" /\ req[q].pc # "idle"
    /\ req[r].start # 0
    /\ req[r].start = req[q].start /\ req[r].end = req[q].end

\* C17: nothing serialises two bookings of one interval: while another
\* request for the same date, slot and duration is in flight or answered,
\* whatever it has created, each step of a request can still succeed, and
\* the body of the other request still passes validation and still yields
\* the same interval when it is posted again.
C17_SameSlotNotExcluded ==
    \A r \in Requests : \A q \in Requests :
        /\ SameInterval(r, q) =>
              /\ req[r].pc = "insert" => ENABLED InsertOk(r)
              /\ req[r].pc = "save" => ENABLED SaveOk(r)
              /\ req[r].pc = "mail" => ENABLED MailOk(r)
        /\ (req[q].start # 0 /\ req[r].pc = "idle") =>
              /\ ~ MissingFields(req[q].body)
              /\ ~ EventThrows(tz, req[q].body)
              /\ BookingDate(tz, req[q].body) = req[q].start
              /\ EndDate(tz, req[q].body) = req[q].end

\* Two requests for the same interval, the second of which created its
\* event before the first did, are both answered with success; the calendar
\* holds two events and the store two Bookings for that interval.
C17_Witness ==
    \E r \in Requests : \E q \in Requests :
        /\ SameInterval(r, q)
        /\ req[r].body = req[q].body
        /\ req[r].status = 200 /\ req[q].status = 200
        /\ r < q /\ req[q].evId < req[r].evId
        /\ Cardinality({ e \in events : e.start = req[r].start
                                         /\ e.end = req[r].end }) = 2
        /\ Cardinality({ b \in bookings : b.startTime = req[r].start
                                           /\ b.endTime = req[r].end }) = 2

\* A step in which GET /api/slots/:date is answered.
DayViewCall == view'.kind = "day" /\ view' # view

\* The answer of the step shows what the stores hold when it is given: a
\* date with a ClosedDay record has no slots, and a slot inside a busy
\* interval of the calendar is unavailable.
ReflectsStores ==
    ( /\ view'.status = 200
      /\ ParseDate(view'.arg) # NaN
      /\ ~ PastDate(DateOf(view'.arg)) )
        => /\ PolicyClosed(DateOf(view'.arg)) => view'.data = << >>
           /\ \A e \in events : \A i \in 1 .. Len(view'.data) :
                 ( /\ e.timed
                   /\ e.start <= view'.data[i].datetime
                   /\ view'.data[i].datetime < e.end )
                     => ~ view'.data[i].available

\* C18: a day view changes neither the calendar's events nor the Booking
\* nor the ClosedDay records, and its answer is computed from the stores as
\* they are when it is asked: a closed day or an event added before the
\* query shows in the answer.
C18_ViewsReadOnlyAndFresh ==
    [][ DayViewCall =>
          /\ UNCHANGED << events, bookings, closedDays >>
          /\ ReflectsStores ]_vars

\* The hour of a slot time hh:mm.
SlotHour(timeSlot) == ParseInt(Part(Split(timeSlot, ":"), 1))

\* Request r has created its event, for the date the last day view was
\* asked for, and the calendar held that event when the view was answered.
CreatedBeforeView(r) ==
    /\ req[r].evId # 0
    /\ \E e \in view.seen : e.id = req[r].evId
    /\ DateOf(req[r].body.date) = DateOf(view.arg)

\* C19: a day view of an open date answered after a booking of that date
\* created its event marks every grid slot from the booked slot up to, not
\* including, the slot duration hours later as unavailable, whatever became
\* of the booking afterwards.
C19_CreatedEventBlocksSlots ==
    OpenDayAnswered =>
        \A r \in Requests :
            CreatedBeforeView(r) =>
                /\ Len(view.data) = 9
                /\ \A h \in 9 .. 17 :
                      ( /\ SlotHour(req[r].body.timeSlot) <= h
                        /\ h < SlotHour(req[r].body.timeSlot)
                                 + HoursOf(req[r].body.duration) )
                          => ~ view.data[h - 8].available

\* The day view of 2024-04-15 after a booking for 10:00, 2h, whose event
\* was created and whose save failed: 10:00 and 11:00 are unavailable.
C19_Witness ==
    /\ OpenDayAnswered
    /\ view.arg = D15
    /\ \E r \in Requests :
          /\ CreatedBeforeView(r)
          /\ req[r].pc = "done" /\ req[r].status = 500
          /\ req[r].body.timeSlot = S10 /\ req[r].body.duration = H2
          /\ ~ Stored(r)
    /\ ~ view.data[2].available
    /\ ~ view.data[3].available
    /\ view.data[4].available

\* Request r has been answered: 400, 500 or the success payload.
Answered(r) == req[r].status \in { 200, 400, 500 }

\* C20: when every awaited call returns, a booking request that has arrived
\* is eventually answered, with 400, 500 or the success payload; the handler
\* ends with its answer, and an answer is never followed by another.
C20_ExactlyOneResponse ==
    /\ \A r \in Requests :
          (req[r].pc # "idle") ~> (req[r].pc = "done" /\ Answered(r))
    /\ [] ( \A r \in Requests :
               /\ req[r].status # 0 => req[r].pc = "done" /\ Answered(r)
               /\ req[r].pc = "done" => Answered(r) )
    /\ [][ \A r \in Requests :
              req[r].status # 0 => req'[r] = req[r] ]_vars

\* Three answers: the success payload, 400 from validation and 500 after the
\* mail could not be sent.
C20_Witness ==
    /\ \E r \in Requests : req[r].status = 200
    /\ \E r \in Requests :
          req[r].status = 500
              /\ req[r].calls = << "insert", "save", "mail" >>

====
